---- MODULE Spec2Model ----
(***************************************************************************)
(* A model of the two scripts of .check/:                                  *)
(*   ConvertLineEndings.py  the line-ending normalizer                     *)
(*   ShellCheck.py          the shell-script auditor                       *)
(* Both walk a directory tree with os.walk.  The file system is the shared *)
(* state: a set of directories and a map from file paths to bytes.  A path *)
(* is the sequence of names below the root the script was given.           *)
(***************************************************************************)
EXTENDS Integers, Sequences, FiniteSets, TLC

\* ------------------------------------------------------------------ bounds
\* Directories and files below the root, counted together.
MaxNodes == 3
\* Bytes held by all the files of the tree together.
MaxBytes == 3
\* Characters of one captured output stream of the external tool.
MaxText == 1
\* The largest completion status of the external tool.
MaxRc == 2

\* ---------------------------------------------------------- the file system
CR == "CR"
LF == "LF"
Bytes == {CR, LF, "x"}

DirNames == {".git", ".github", "sub"}
FileNames == {"a.sh", ".gitattributes"}
\* The order in which a directory's entries are listed (the file system's;
\* fixed here, no property below depends on it).
NameOrder == <<".git", ".gitattributes", ".github", "a.sh", "sub">>

RECURSIVE SeqsUpTo(_, _)
SeqsUpTo(S, n) ==
  IF n = 0 THEN {<<>>}
  ELSE LET shorter == SeqsUpTo(S, n - 1)
       IN  shorter \cup {Append(s, x) : s \in shorter, x \in S}

EmptyTree == [d |-> {<<>>}, f |-> {}]

Grow(T) ==
  {[d |-> T.d \cup {Append(p, n)}, f |-> T.f] : p \in T.d, n \in DirNames}
    \cup {[d |-> T.d, f |-> T.f \cup {Append(p, n)}] : p \in T.d, n \in FileNames}

RECURSIVE Trees(_)
Trees(k) ==
  IF k = 0 THEN {EmptyTree}
  ELSE LET smaller == Trees(k - 1)
       IN  smaller \cup UNION {Grow(T) : T \in smaller}

RECURSIVE Fill(_, _)
Fill(F, budget) ==
  IF F = {} THEN {<<>>}
  ELSE LET p == CHOOSE q \in F : TRUE
       IN  UNION {{(p :> c) @@ g : g \in Fill(F \ {p}, budget - Len(c))} :
                  c \in SeqsUpTo(Bytes, budget)}

\* os.path.join(root, name)
join(path, name) == Append(path, name)

Name(p) == p[Len(p)]

RECURSIVE Filter(_, _)
Filter(seq, S) ==
  IF seq = <<>> THEN <<>>
  ELSE IF Head(seq) \in S THEN <<Head(seq)>> \o Filter(Tail(seq), S)
       ELSE Filter(Tail(seq), S)

\* What scandir(top) yields, split by os.walk into directories and the rest.
ListDirs(D, top) == Filter(NameOrder, {n \in DirNames : join(top, n) \in D})
ListFiles(F, top) == Filter(NameOrder, {n \in FileNames : join(top, n) \in DOMAIN F})

RECURSIVE Reverse(_)
Reverse(s) == IF s = <<>> THEN <<>> ELSE Append(Reverse(Tail(s)), Head(s))

\* --------------------------------------------------------- pure functions
\* list.remove(x): drops the first x; the caller checks x is there.
RECURSIVE remove(_, _)
remove(l, x) ==
  IF l = <<>> THEN <<>>
  ELSE IF Head(l) = x THEN Tail(l) ELSE <<Head(l)>> \o remove(Tail(l), x)

In(x, l) == \E i \in 1..Len(l) : l[i] = x

\* content.replace(b"\r\n", b"\n"): left to right, occurrences not overlapping.
RECURSIVE replace(_)
replace(s) ==
  IF s = <<>> THEN <<>>
  ELSE IF Len(s) >= 2 /\ s[1] = CR /\ s[2] = LF
       THEN <<LF>> \o replace(SubSeq(s, 3, Len(s)))
       ELSE <<s[1]>> \o replace(Tail(s))

\* A write-back that is not gated: what C3 must tell from the code.
NeedsWriteAlways(old, new) == TRUE

\* if new_content != content
NeedsWrite(old, new) == new # old

\* str.strip(): whitespace dropped at both ends.  A text is a sequence of
\* characters, " " the whitespace among them.
IsSpace(ch) == ch = " "

RECURSIVE lstrip(_)
lstrip(t) == IF t # <<>> /\ IsSpace(Head(t)) THEN lstrip(Tail(t)) ELSE t

strip(t) == Reverse(lstrip(Reverse(lstrip(t))))

Chars == {" ", "x"}
Texts == SeqsUpTo(Chars, MaxText)

\* The first line of a script, as readline() returns it less the newline: a
\* sequence of pieces, " " the whitespace among them.  The auditor reads
\* nothing else of a file and reads it once, so the line is drawn at the read.
FirstLines ==
  { <<>>,
    <<"echo">>,
    <<"#!", "/bin/", "bash">>,
    <<" ", "#!", "/bin/", "sh">>,
    <<"#!", "/usr/bin/", "perl">> }

\* first_line.startswith("#!")
StartsWithShebang(line) == line # <<>> /\ Head(line) = "#!"

\* "bash" in first_line, "sh" in first_line ("bash" holds "sh")
ContainsBash(line) == In("bash", line)
ContainsSh(line) == In("sh", line) \/ In("bash", line)

\* filename.endswith(".sh"), over FileNames
EndsWithSh(filename) == filename \in {"a.sh"}

\* A status test that takes 1 for clean: what C10 must tell from the code.
IsCleanLoose(rc) == rc <= 1

\* returncode == 0
IsClean(rc) == rc = 0

\* A loop that looks at the search path again: what C9 must tell from the code.
UseToolNow(installed, now) == now

\* if shellcheck_installed: the loop reads the flag main set before it
UseTool(installed, now) == installed

\* ------------------------------------------------------------------ state
VARIABLES
  fs_dirs,       \* the directories of the tree, the root <<>> among them
  fs_files,      \* file path -> the file's bytes
  pc,            \* where the running script is
  stack,         \* os.walk: the directories still to visit, next one last
  root, dirs, files,   \* the loop variables of "for root, dirs, files in os.walk"
  out,           \* the lines printed so far, in order
  status,        \* the exit status; -1 while the script runs
  fault,         \* the uncaught exception that ended the script, or "none"
  unlisted,      \* history: the directories whose listing failed
  file_path, content, new_content,   \* locals of convert_line_endings_to_unix
  orig,          \* history: fs_files when the run started
  rd,            \* history: the files this run has read
  wr,            \* history: the files this run has opened for writing
  failed,        \* history: the files a read or a write has failed on
  run,           \* history: 1 in the first run over the tree, 2 in the second
  on_path,       \* environment: whether shellcheck is on the search path now
  sh_files,      \* ShellCheck.py main: the list find_sh_files returned
  shellcheck_installed,   \* ShellCheck.py main: what the probe answered
  idx,           \* how many entries of sh_files the for loop has taken
  sh_file,       \* the loop variable of "for sh_file in sh_files"
  stdout, stderr, returncode,   \* what run_shellcheck returned last
  errors,        \* what naive_sh_check returned last
  probes,        \* history: how many times shutil.which was called
  via            \* history: per file taken, "tool" or "naive"

fsVars == <<fs_dirs, fs_files>>
walkVars == <<stack, root, dirs, files>>
normLocals == <<file_path, content, new_content>>
normHist == <<orig, rd, wr, failed, run>>
auditVars == <<on_path, sh_files, shellcheck_installed, idx, sh_file,
               stdout, stderr, returncode, errors, probes, via>>
vars == <<fsVars, pc, walkVars, out, status, fault, unlisted, normLocals, normHist,
          auditVars>>

Line(kind, what) == <<kind, what>>

\* One step of the generator behind os.walk(top), entered when the caller asks
\* for the next triple: the directories left in the caller's list are pushed
\* (reversed, so that the first is popped first), then the next directory is
\* popped and listed.  A listing that raises OSError is dropped (onerror is
\* None) and the generator goes on with the next directory.
WalkPushed == stack \o Reverse([i \in 1..Len(dirs) |-> join(root, dirs[i])])

WalkExhausted == WalkPushed = <<>>

WalkTop == WalkPushed[Len(WalkPushed)]

WalkPop == stack' = SubSeq(WalkPushed, 1, Len(WalkPushed) - 1)

WalkListingFails ==
  /\ WalkPop
  /\ dirs' = <<>>
  /\ unlisted' = unlisted \cup {WalkTop}
  /\ UNCHANGED <<root, files>>

\* ------------------------------------------- ConvertLineEndings.py: main
norm_main ==
  /\ pc = "main"
  /\ \E argc \in 1..3, isdir \in BOOLEAN :
       IF argc # 2
       THEN /\ out' = Append(out, Line("USAGE", <<>>))
            /\ status' = 1
            /\ pc' = "exit"
            /\ UNCHANGED stack
       ELSE IF ~isdir
       THEN /\ out' = Append(out, Line("INVALID", <<>>))
            /\ status' = 1
            /\ pc' = "exit"
            /\ UNCHANGED stack
       ELSE /\ pc' = "walk"
            /\ stack' = <<<<>>>>
            /\ UNCHANGED <<out, status>>
  /\ UNCHANGED <<fsVars, root, dirs, files, fault, unlisted, normLocals, normHist, auditVars>>

\* for root, dirs, files in os.walk(directory), with the pruning of dirs
norm_walk ==
  /\ pc = "walk"
  /\ IF WalkExhausted
     THEN /\ pc' = "done"
          /\ status' = 0
          /\ UNCHANGED <<walkVars, fault, unlisted>>
     ELSE \/ /\ WalkListingFails
             /\ UNCHANGED <<pc, status, fault>>
          \/ /\ WalkPop
             /\ root' = WalkTop
             /\ files' = ListFiles(fs_files, WalkTop)
             /\ LET listed == ListDirs(fs_dirs, WalkTop)
                IN  IF In(".github", listed)
                    THEN IF In(".git", listed)
                         THEN /\ dirs' = remove(remove(listed, ".git"), ".github")
                              /\ pc' = "files"
                              /\ UNCHANGED <<status, fault>>
                         ELSE /\ dirs' = listed
                              /\ pc' = "crashed"
                              /\ status' = 1
                              /\ fault' = "ValueError"
                    ELSE /\ dirs' = listed
                         /\ pc' = "files"
                         /\ UNCHANGED <<status, fault>>
             /\ UNCHANGED unlisted
  /\ UNCHANGED <<fsVars, out, normLocals, normHist, auditVars>>

\* for filename in files: the skip of .gitattributes, the read, the comparison
norm_file ==
  /\ pc = "files"
  /\ IF files = <<>>
     THEN /\ pc' = "walk"
          /\ UNCHANGED <<files, out, normLocals, rd, failed>>
     ELSE LET filename == Head(files)
              path == join(root, filename)
          IN  /\ files' = Tail(files)
              /\ IF filename = ".gitattributes"
                 THEN UNCHANGED <<pc, out, normLocals, rd, failed>>
                 ELSE /\ file_path' = path
                      /\ \/ /\ out' = Append(out, Line("ERROR_OPEN", path))
                            /\ failed' = failed \cup {path}
                            /\ UNCHANGED <<pc, content, new_content, rd>>
                         \/ /\ content' = fs_files[path]
                            /\ new_content' = replace(fs_files[path])
                            /\ rd' = rd \cup {path}
                            /\ pc' = IF NeedsWrite(fs_files[path], replace(fs_files[path]))
                                     THEN "open" ELSE "files"
                            /\ UNCHANGED <<out, failed>>
  /\ UNCHANGED <<fsVars, stack, root, dirs, status, fault, unlisted, orig, wr, run, auditVars>>

\* open(file_path, "wb"): truncates the file, or raises OSError
norm_open ==
  /\ pc = "open"
  /\ wr' = wr \cup {file_path}
  /\ \/ /\ fs_files' = [fs_files EXCEPT ![file_path] = <<>>]
        /\ pc' = "write"
        /\ UNCHANGED <<out, failed>>
     \/ /\ out' = Append(out, Line("ERROR_WRITE", file_path))
        /\ failed' = failed \cup {file_path}
        /\ pc' = "files"
        /\ UNCHANGED fs_files
  /\ UNCHANGED <<fs_dirs, walkVars, status, fault, unlisted, normLocals, orig, rd, run, auditVars>>

\* f.write(new_content) and the close: all the bytes, or OSError after some
norm_write ==
  /\ pc = "write"
  /\ \/ /\ fs_files' = [fs_files EXCEPT ![file_path] = new_content]
        /\ out' = Append(out, Line("INFO", file_path))
        /\ UNCHANGED failed
     \/ \E k \in 0..(Len(new_content) - 1) :
          /\ fs_files' = [fs_files EXCEPT ![file_path] = SubSeq(new_content, 1, k)]
          /\ out' = Append(out, Line("ERROR_WRITE", file_path))
          /\ failed' = failed \cup {file_path}
  /\ pc' = "files"
  /\ UNCHANGED <<fs_dirs, walkVars, status, fault, unlisted, normLocals, orig, rd, wr, run, auditVars>>

\* The script is started again on the tree the first run left.
norm_again ==
  /\ pc = "done"
  /\ run = 1
  /\ run' = 2
  /\ pc' = "walk"
  /\ stack' = <<<<>>>>
  /\ root' = <<>>
  /\ dirs' = <<>>
  /\ files' = <<>>
  /\ out' = <<>>
  /\ status' = -1
  /\ file_path' = <<>>
  /\ content' = <<>>
  /\ new_content' = <<>>
  /\ orig' = fs_files
  /\ rd' = {}
  /\ wr' = {}
  /\ UNCHANGED <<fsVars, fault, unlisted, failed, auditVars>>

\* ------------------------------------------------- ShellCheck.py: main
audit_main ==
  /\ pc = "main"
  /\ \E argc \in 1..3, isdir \in BOOLEAN :
       IF argc # 2
       THEN /\ out' = Append(out, Line("USAGE", <<>>))
            /\ status' = 1
            /\ pc' = "exit"
            /\ UNCHANGED stack
       ELSE IF ~isdir
       THEN /\ out' = Append(out, Line("INVALID", <<>>))
            /\ status' = 1
            /\ pc' = "exit"
            /\ UNCHANGED stack
       ELSE /\ pc' = "find"
            /\ stack' = <<<<>>>>
            /\ UNCHANGED <<out, status>>
  /\ UNCHANGED <<fsVars, root, dirs, files, fault, unlisted, normLocals, normHist,
                 auditVars>>

\* find_sh_files: one directory of the walk, and the return to main
find_sh_files ==
  /\ pc = "find"
  /\ IF WalkExhausted
     THEN /\ IF sh_files = <<>>
             THEN /\ out' = Append(out, Line("NONE_FOUND", <<>>))
                  /\ pc' = "done"
                  /\ status' = 0
             ELSE /\ pc' = "probe"
                  /\ UNCHANGED <<out, status>>
          /\ UNCHANGED <<walkVars, unlisted, sh_files>>
     ELSE \/ /\ WalkListingFails
             /\ UNCHANGED <<pc, out, status, sh_files>>
          \/ /\ WalkPop
             /\ root' = WalkTop
             /\ dirs' = ListDirs(fs_dirs, WalkTop)
             /\ files' = ListFiles(fs_files, WalkTop)
             /\ LET listed == ListFiles(fs_files, WalkTop)
                    found == Filter(listed, {n \in FileNames : EndsWithSh(n)})
                IN  sh_files' = sh_files \o [i \in 1..Len(found) |-> join(WalkTop, found[i])]
             /\ UNCHANGED <<pc, out, status, unlisted>>
  /\ UNCHANGED <<fsVars, fault, normLocals, normHist, on_path, shellcheck_installed,
                 idx, sh_file, stdout, stderr, returncode, errors, probes, via>>

\* shellcheck_path = shutil.which("shellcheck")
audit_probe ==
  /\ pc = "probe"
  /\ shellcheck_installed' = on_path
  /\ probes' = probes + 1
  /\ pc' = "loop"
  /\ UNCHANGED <<fsVars, walkVars, out, status, fault, unlisted, normLocals, normHist,
                 on_path, sh_files, idx, sh_file, stdout, stderr, returncode, errors, via>>

\* What main prints for a file run_shellcheck has answered for.
ToolReport(so, se, rc) ==
  IF IsClean(rc)
  THEN <<Line("CLEAN_TOOL", <<>>)>>
  ELSE <<Line("ISSUES_TOOL", <<>>)>>
         \o (IF strip(so) # <<>> THEN <<Line("TEXT", strip(so))>> ELSE <<>>)
         \o (IF strip(se) # <<>> THEN <<Line("TEXT", strip(se))>> ELSE <<>>)

\* naive_sh_check's list of findings, the file opened and its first line read.
NaiveErrors(line, executable) ==
  LET first_line == strip(line)
  IN  (IF ~StartsWithShebang(first_line)
       THEN <<Line("MISSING_SHEBANG", <<>>)>>
       ELSE IF ~ContainsBash(first_line) /\ ~ContainsSh(first_line)
       THEN <<Line("SHEBANG_NOT_SH", first_line)>>
       ELSE <<>>)
        \o (IF ~executable THEN <<Line("NOT_EXECUTABLE", <<>>)>> ELSE <<>>)

\* What main prints for the findings of naive_sh_check.
NaiveReport(errs) ==
  IF errs # <<>>
  THEN <<Line("ISSUES_NAIVE", <<>>)>> \o [i \in 1..Len(errs) |-> Line("BULLET", errs[i])]
  ELSE <<Line("CLEAN_NAIVE", <<>>)>>

\* One round of "for sh_file in sh_files", or the end of the loop.
audit_file ==
  /\ pc = "loop"
  /\ IF idx = Len(sh_files)
     THEN /\ pc' = "done"
          /\ status' = 0
          /\ UNCHANGED <<out, fault, idx, sh_file, stdout, stderr, returncode, errors, via>>
     ELSE LET f == sh_files[idx + 1]
              header == Append(out, Line("HEADER", f))
          IN  /\ idx' = idx + 1
              /\ sh_file' = f
              /\ IF UseTool(shellcheck_installed, on_path)
                 THEN /\ via' = Append(via, "tool")
                      /\ UNCHANGED errors
                      /\ IF on_path
                         THEN \E so \in Texts, se \in Texts, rc \in 0..MaxRc :
                                /\ stdout' = so
                                /\ stderr' = se
                                /\ returncode' = rc
                                /\ out' = header \o ToolReport(so, se, rc)
                                /\ UNCHANGED <<pc, status, fault>>
                         ELSE /\ out' = header
                              /\ pc' = "crashed"
                              /\ status' = 1
                              /\ fault' = "FileNotFoundError"
                              /\ UNCHANGED <<stdout, stderr, returncode>>
                 ELSE /\ via' = Append(via, "naive")
                      /\ UNCHANGED <<stdout, stderr, returncode>>
                      /\ \/ /\ out' = header
                            /\ pc' = "crashed"
                            /\ status' = 1
                            /\ fault' = "OSError"
                            /\ UNCHANGED errors
                         \/ \E line \in FirstLines, executable \in BOOLEAN :
                              /\ errors' = NaiveErrors(line, executable)
                              /\ out' = header \o NaiveReport(NaiveErrors(line, executable))
                              /\ UNCHANGED <<pc, status, fault>>
  /\ UNCHANGED <<fsVars, walkVars, unlisted, normLocals, normHist, on_path, sh_files,
                 shellcheck_installed, probes>>

\* Environment: shellcheck is installed or removed while the auditor runs.
env_path ==
  /\ pc \in {"main", "find", "probe", "loop"}
  /\ on_path' = ~on_path
  /\ UNCHANGED <<fsVars, pc, walkVars, out, status, fault, unlisted, normLocals, normHist,
                 sh_files, shellcheck_installed, idx, sh_file, stdout, stderr, returncode,
                 errors, probes, via>>

AuditInit ==
  /\ \E T \in Trees(MaxNodes) :
       /\ fs_dirs = T.d
       /\ fs_files = [p \in T.f |-> <<>>]
       /\ orig = [p \in T.f |-> <<>>]
  /\ pc = "main"
  /\ stack = <<>>
  /\ root = <<>>
  /\ dirs = <<>>
  /\ files = <<>>
  /\ out = <<>>
  /\ status = -1
  /\ fault = "none"
  /\ unlisted = {}
  /\ file_path = <<>>
  /\ content = <<>>
  /\ new_content = <<>>
  /\ rd = {}
  /\ wr = {}
  /\ failed = {}
  /\ run = 1
  /\ on_path \in BOOLEAN
  /\ sh_files = <<>>
  /\ shellcheck_installed = FALSE
  /\ idx = 0
  /\ sh_file = <<>>
  /\ stdout = <<>>
  /\ stderr = <<>>
  /\ returncode = 0
  /\ errors = <<>>
  /\ probes = 0
  /\ via = <<>>

AuditNext == audit_main \/ find_sh_files \/ audit_probe \/ audit_file \/ env_path

SpecAudit == AuditInit /\ [][AuditNext]_vars

AuditIdle ==
  /\ on_path = FALSE
  /\ sh_files = <<>>
  /\ shellcheck_installed = FALSE
  /\ idx = 0
  /\ sh_file = <<>>
  /\ stdout = <<>>
  /\ stderr = <<>>
  /\ returncode = 0
  /\ errors = <<>>
  /\ probes = 0
  /\ via = <<>>

NormInit ==
  /\ \E T \in Trees(MaxNodes) :
       /\ fs_dirs = T.d
       /\ \E F \in Fill(T.f, MaxBytes) :
            /\ fs_files = F
            /\ orig = F
  /\ pc = "main"
  /\ stack = <<>>
  /\ root = <<>>
  /\ dirs = <<>>
  /\ files = <<>>
  /\ out = <<>>
  /\ status = -1
  /\ fault = "none"
  /\ unlisted = {}
  /\ file_path = <<>>
  /\ content = <<>>
  /\ new_content = <<>>
  /\ rd = {}
  /\ wr = {}
  /\ failed = {}
  /\ run = 1
  /\ AuditIdle

NormNext == norm_main \/ norm_walk \/ norm_file \/ norm_open \/ norm_write

SpecNorm == NormInit /\ [][NormNext]_vars

\* The normalizer run twice in succession on the same tree.
TwiceNext == NormNext \/ norm_again

SpecTwice == NormInit /\ [][TwiceNext]_vars

\* ----------------------------------------------------------------- claims
HasCRLF(s) == \E i \in 1..(Len(s) - 1) : s[i] = CR /\ s[i + 1] = LF

ExcludedNames == {".git", ".github"}

\* The file at path p lies, at some depth, beneath a directory of an excluded name.
UnderExcluded(p) == \E i \in 1..(Len(p) - 1) : p[i] \in ExcludedNames

Printed(kind, what) == In(Line(kind, what), out)

\* C1: after one run that ended, every eligible file that was read, that no
\* read or write failed on and whose original bytes held CR LF holds no CR LF
\* any more and is named in a "Converted line endings" line.
C1_NoCRLFLeft ==
  pc = "done" =>
    \A p \in DOMAIN orig :
      (/\ ~UnderExcluded(p)
       /\ Name(p) # ".gitattributes"
       /\ p \in rd
       /\ p \notin failed
       /\ HasCRLF(orig[p]))
      => (~HasCRLF(fs_files[p]) /\ Printed("INFO", p))

\* C2: in a second run right after the first, with no listing, read or write
\* having failed in either, no file is opened for writing and no "Converted
\* line endings" line is printed.
C2_SecondRunChangesNothing ==
  (run = 2 /\ failed = {} /\ unlisted = {}) =>
    (wr = {} /\ \A i \in 1..Len(out) : out[i][1] # "INFO")

\* C3: a file is opened for writing exactly when the transformed copy of what
\* was read differs from it; a file whose original bytes hold no CR LF keeps
\* its bytes and is never named in a "Converted line endings" line.
C3_WriteBackGated ==
  /\ \A p \in wr : p \in rd /\ replace(orig[p]) # orig[p]
  /\ \A p \in rd :
       (replace(orig[p]) # orig[p] /\ ~(pc = "open" /\ file_path = p)) => p \in wr
  /\ \A p \in DOMAIN orig :
       ~HasCRLF(orig[p]) => (fs_files[p] = orig[p] /\ ~Printed("INFO", p))

\* C3's case: a finished run that read a non-empty file without CR LF and left
\* it alone, and read a file with CR LF, wrote it back and reported it.
C3_Witness ==
  /\ pc = "done"
  /\ \E p \in rd : orig[p] # <<>> /\ ~HasCRLF(orig[p]) /\ p \notin wr
  /\ \E q \in wr : HasCRLF(orig[q]) /\ fs_files[q] # orig[q] /\ Printed("INFO", q)

\* C4: no file beneath a directory named .git or .github is read or opened
\* for writing.
C4_ExcludedUntouched == \A p \in rd \cup wr : ~UnderExcluded(p)

\* C5: a run given one argument naming a directory ends with status 0: status
\* 1 comes only from the two argument checks, and no exception ends the run.
C5_RunCompletes == (status = 1 => pc = "exit") /\ fault = "none"

\* C6: in the fallback path a file that cannot be opened does not end the
\* run: the run goes on and ends with status 0.
C6_UnreadableGoesOn ==
  (via # <<>> /\ via[Len(via)] = "naive") => (pc \in {"loop", "done"} /\ status \in {-1, 0})

\* C7: every directory below the root whose listing failed is named in a
\* warning line.
C7_ListingFailureWarned == \A d \in unlisted : d # <<>> => Printed("WARNING", d)

\* C8: at every point of a run each file holds its original bytes or its
\* fully transformed bytes.
C8_OriginalOrTransformed ==
  \A p \in DOMAIN fs_files : fs_files[p] = orig[p] \/ fs_files[p] = replace(orig[p])

\* C9: the probe is made once, after discovery has ended with a file found and
\* before the first file is taken, and every file is processed by the path
\* the probe chose.
C9_ProbeOnce ==
  /\ probes <= 1
  /\ probes = 0 => (via = <<>> /\ idx = 0 /\ pc \in {"main", "find", "probe", "exit", "done"})
  /\ probes = 1 => (sh_files # <<>> /\ WalkExhausted /\ pc \in {"loop", "done", "crashed"})
  /\ (sh_files # <<>> /\ pc \in {"loop", "done", "crashed"}) => probes = 1
  /\ Len(via) = idx
  /\ \A i \in 1..Len(via) : via[i] = IF shellcheck_installed THEN "tool" ELSE "naive"

\* C9's case: two files were processed, both by the tool path the one probe
\* chose, although the tool has left the search path since.
C9_Witness ==
  /\ pc = "done"
  /\ probes = 1
  /\ via = <<"tool", "tool">>
  /\ shellcheck_installed
  /\ ~on_path

\* The lines printed after the last "=== Checking file" header.
LastHeader == CHOOSE i \in 1..Len(out) :
                /\ out[i][1] = "HEADER"
                /\ \A j \in (i + 1)..Len(out) : out[j][1] # "HEADER"

Section == SubSeq(out, LastHeader + 1, Len(out))

AllSpace(s) == \A i \in 1..Len(s) : s[i] = " "

\* t is s less the whitespace at its two ends.
IsTrimOf(t, s) ==
  /\ t = <<>> \/ (t[1] # " " /\ t[Len(t)] # " ")
  /\ \E i \in 0..Len(s), j \in 0..Len(s) :
       /\ i + Len(t) + j = Len(s)
       /\ AllSpace(SubSeq(s, 1, i))
       /\ SubSeq(s, i + 1, i + Len(t)) = t
       /\ AllSpace(SubSeq(s, Len(s) - j + 1, Len(s)))

IfNonEmpty(t) == IF t # <<>> THEN <<Line("TEXT", t)>> ELSE <<>>

\* The external tool has answered for the file taken last.
ToolAnswered == via # <<>> /\ via[Len(via)] = "tool" /\ fault # "FileNotFoundError"

\* C10: in the tool path the file is reported clean exactly when the status
\* is zero; a non-zero status gives "ShellCheck issues:" followed by the
\* trimmed standard output and the trimmed standard error, each only when not
\* empty, and the run goes on.
C10_ToolReport ==
  ToolAnswered =>
    /\ pc \in {"loop", "done"}
    /\ status \in {-1, 0}
    /\ Printed("HEADER", sh_file)
    /\ In(Line("CLEAN_TOOL", <<>>), Section) <=> returncode = 0
    /\ returncode = 0 => Section = <<Line("CLEAN_TOOL", <<>>)>>
    /\ returncode # 0 =>
         /\ Section # <<>>
         /\ Head(Section) = Line("ISSUES_TOOL", <<>>)
         /\ \E a \in Texts, b \in Texts :
              /\ IsTrimOf(a, stdout)
              /\ IsTrimOf(b, stderr)
              /\ Tail(Section) = IfNonEmpty(a) \o IfNonEmpty(b)

\* C10's case: the first file got a non-zero status and an issues report, the
\* second was still processed, its standard output printed and its
\* whitespace-only standard error not, and the run ended with status 0.
C10_Witness ==
  /\ pc = "done"
  /\ status = 0
  /\ via = <<"tool", "tool">>
  /\ out[2] = Line("ISSUES_TOOL", <<>>)
  /\ returncode = MaxRc
  /\ stdout = <<"x">>
  /\ stderr = <<" ">>
  /\ Section = <<Line("ISSUES_TOOL", <<>>), Line("TEXT", <<"x">>)>>

====
